---- MODULE Spec2Model ----
(***************************************************************************)
(* A model of feincms/module/medialibrary/models.py: the Category tree     *)
(* (slug generation, parent links, path reconstruction) and MediaFileBase  *)
(* (the file-type registry and classifier, and save() with its size read,  *)
(* EXIF auto-rotation, image-open fallback and superseded-file cleanup).   *)
(*                                                                         *)
(* Text (file names, titles, slugs) is a sequence of one-character         *)
(* strings, so that lower-casing, suffix tests, slugify and join are       *)
(* computed character by character.  An optional value (None in the        *)
(* source) is the empty sequence <<>>, a present one is <<v>>.             *)
(***************************************************************************)
EXTENDS Integers, Sequences, FiniteSets

(* ------------------------------------------------------------------ *)
(* Bounds of the model                                                 *)
(* ------------------------------------------------------------------ *)

\* Number of register_filetypes calls made by callers after the built-in one.
MaxRegistrations == 2

\* Number of file names (blobs) the storage can hold.
MaxFiles == 2

\* Number of register_filetypes calls interleaved with MediaFile operations.
MaxMediaRegistrations == 1

\* Number of Category rows.
MaxCategories == 2

(* ------------------------------------------------------------------ *)
(* Text helpers: str.lower(), str.endswith(), the regex anchor $       *)
(* ------------------------------------------------------------------ *)

UpperAlpha == <<"A", "B", "C", "D", "E", "F", "G", "H", "I", "J", "K", "L", "M", "N", "O", "P", "Q", "R", "S", "T", "U", "V", "W", "X", "Y", "Z">>

LowerAlpha == <<"a", "b", "c", "d", "e", "f", "g", "h", "i", "j", "k", "l", "m", "n", "o", "p", "q", "r", "s", "t", "u", "v", "w", "x", "y", "z">>

Digits == {"0", "1", "2", "3", "4", "5", "6", "7", "8", "9"}

LowerChar(c) ==
    IF \E i \in DOMAIN UpperAlpha : UpperAlpha[i] = c
    THEN LowerAlpha[CHOOSE i \in DOMAIN UpperAlpha : UpperAlpha[i] = c]
    ELSE c

\* str.lower()
LowerStr(s) == [i \in 1..Len(s) |-> LowerChar(s[i])]

\* str.endswith(suffix)
EndsWith(s, suffix) ==
    /\ Len(s) >= Len(suffix)
    /\ SubSeq(s, Len(s) - Len(suffix) + 1, Len(s)) = suffix

\* re.compile(r'\.(e1|e2|...)$', re.IGNORECASE).search(f): some alternative,
\* compared case-insensitively, ends the name; without re.MULTILINE the
\* anchor $ also matches just before a newline that ends the name.
RegexExtSearch(exts, f) ==
    LET l == LowerStr(f)
        atEnd(s) == \E e \in exts : EndsWith(s, <<".">> \o e)
    IN  \/ atEnd(l)
        \/ /\ Len(l) > 0
           /\ l[Len(l)] = "\n"
           /\ atEnd(SubSeq(l, 1, Len(l) - 1))

(* ------------------------------------------------------------------ *)
(* The file-type registry                                              *)
(* ------------------------------------------------------------------ *)

ImageExts == {<<"b", "m", "p">>, <<"j", "p", "g">>, <<"j", "p", "e", "g">>, <<"j", "p", "2">>, <<"j", "x", "r">>, <<"g", "i", "f">>, <<"p", "n", "g">>, <<"t", "i", "f">>, <<"t", "i", "f", "f">>}

VideoExts == {<<"m", "o", "v">>, <<"m", "1", "v">>, <<"m", "4", "v">>, <<"m", "p", "4">>, <<"a", "v", "i">>, <<"m", "p", "g">>, <<"m", "p", "e", "g">>, <<"q", "t">>, <<"o", "g", "v">>, <<"w", "m", "v">>}

AudioExts == {<<"m", "p", "3">>, <<"a", "u">>, <<"m", "4", "a">>, <<"w", "m", "a">>, <<"o", "g", "a">>, <<"r", "a", "m">>, <<"w", "a", "v">>}

\* The predicates, by name.  A predicate is [kind, exts]:
\*   "regex"     re.compile(r'\.(exts)$', re.IGNORECASE).search(f)
\*   "endswith"  f.lower().endswith('.' + ext)
\*   "true"      lambda f: True
\*   "nodot"     lambda f: '.' not in f
\* The last three are what callers register.
Predicate(id) ==
    CASE id = "re_image" -> [kind |-> "regex", exts |-> ImageExts]
      [] id = "re_video" -> [kind |-> "regex", exts |-> VideoExts]
      [] id = "re_audio" -> [kind |-> "regex", exts |-> AudioExts]
      [] id = "ends_pdf" -> [kind |-> "endswith", exts |-> {<<"p", "d", "f">>}]
      [] id = "ends_swf" -> [kind |-> "endswith", exts |-> {<<"s", "w", "f">>}]
      [] id = "ends_txt" -> [kind |-> "endswith", exts |-> {<<"t", "x", "t">>}]
      [] id = "ends_rtf" -> [kind |-> "endswith", exts |-> {<<"r", "t", "f">>}]
      [] id = "ends_zip" -> [kind |-> "endswith", exts |-> {<<"z", "i", "p">>}]
      [] id = "re_doc"   -> [kind |-> "regex", exts |-> {<<"d", "o", "c">>, <<"d", "o", "c", "x">>}]
      [] id = "re_xls"   -> [kind |-> "regex", exts |-> {<<"x", "l", "s">>, <<"x", "l", "s", "x">>}]
      [] id = "re_ppt"   -> [kind |-> "regex", exts |-> {<<"p", "p", "t">>, <<"p", "p", "t", "x">>}]
      [] id = "true"     -> [kind |-> "true", exts |-> {}]
      [] id = "ends_jpg" -> [kind |-> "endswith", exts |-> {<<"j", "p", "g">>}]
      [] id = "nodot"    -> [kind |-> "nodot", exts |-> {}]
      [] id = "re_pdf"   -> [kind |-> "regex", exts |-> {<<"p", "d", "f">>}]

\* type_test(name) for the predicate named id.
TypeTest(id, f) ==
    LET test == Predicate(id)
    IN  CASE test.kind = "regex"    -> RegexExtSearch(test.exts, f)
          [] test.kind = "endswith" -> \E e \in test.exts : EndsWith(LowerStr(f), <<".">> \o e)
          [] test.kind = "true"     -> TRUE
          [] test.kind = "nodot"    -> \A i \in 1..Len(f) : f[i] # "."

\* A registry entry (key, label, predicate); the label takes no part in
\* classification and is left out.
FileType(k, id) == [key |-> k, test |-> id]

\* The group registered at import time.
BuiltinFiletypes ==
    << FileType("image", "re_image"),
       FileType("video", "re_video"),
       FileType("audio", "re_audio"),
       FileType("pdf", "ends_pdf"),
       FileType("swf", "ends_swf"),
       FileType("txt", "ends_txt"),
       FileType("rtf", "ends_rtf"),
       FileType("zip", "ends_zip"),
       FileType("doc", "re_doc"),
       FileType("xls", "re_xls"),
       FileType("ppt", "re_ppt"),
       FileType("other", "true") >>

\* Groups a caller may pass to register_filetypes: one that shadows the
\* built-in image rule for .jpg, one for names without an extension, and a
\* two-entry group whose entries both match .pdf.
UserGroups ==
    { << FileType("photo", "ends_jpg") >>,
      << FileType("noext", "nodot") >>,
      << FileType("image", "re_pdf"), FileType("scan", "ends_pdf") >> }

\* The sentinel name save() classifies when a file typed 'image' cannot be opened.
Sentinel == <<"*", "*", "*">>

(* ------------------------------------------------------------------ *)
(* Names, blobs                                                        *)
(* ------------------------------------------------------------------ *)

AllFileNames ==
    << <<"a", ".", "j", "p", "g">>,
       <<"b", ".", "P", "D", "F">>,
       <<"c">>,
       <<"d", ".", "p", "n", "g">> >>

FileNames == { AllFileNames[i] : i \in 1..MaxFiles }

\* Names handed to determine_file_type directly (the doctest's, and more).
ProbeNames ==
    { <<"f", "o", "o", "b", "a", "r", ".", "j", "p", "g">>,
      <<"f", "o", "o", "b", "a", "r", ".", "P", "D", "F">>,
      <<"f", "o", "o", "b", "a", "r", ".", "j", "p", "g", ".", "p", "d", "f">>,
      <<"f", "o", "o", "b", "a", "r", ".", "j", "g", "p">>,
      <<"f", "o", "o", "b", "a", "r", "-", "j", "p", "g">>,
      <<"x", ".", "J", "P", "G", "\n">>,
      <<"x", ".", "p", "d", "f", "\n">>,
      <<"m", ".", "M", "p", "E", "g">>,
      <<"n", "o", "t", "e", "s">>,
      Sentinel }

VARIABLES
    filetypes,    \* MediaFileBase.filetypes, the class-level registry
    registered,   \* the groups passed to register_filetypes by callers, in call order
    probe,        \* the last direct determine_file_type call: its name, its
                  \* result, and the number of caller registrations it followed
    mf,           \* the MediaFile instance in memory
    db,           \* the persisted MediaFile row
    storage,      \* the blob store behind the file field
    last,         \* what the last MediaFile operation did
    cats,         \* the Category rows
    clast         \* what the last Category operation did

vars == <<filetypes, registered, probe, mf, db, storage, last, cats, clast>>

mediaVars == <<mf, db, storage, last>>
catVars == <<cats, clast>>

(* ------------------------------------------------------------------ *)
(* register_filetypes and determine_file_type                          *)
(* ------------------------------------------------------------------ *)

\* The record of an operation other than save.
NoSave ==
    [op |-> "none", deleted |-> <<>>, raised |-> FALSE, opened |-> FALSE,
     fallback |-> FALSE, rotation |-> 0, sizeFailed |-> FALSE]

\* A seeded slip: the group is appended behind the registry.
InsertAtFront_Appends(list, types) == list \o types

\* cls.filetypes[0:0] = types
InsertAtFront(list, types) == types \o list

RegisterFiletypes(types) ==
    /\ Len(registered) < MaxRegistrations
    /\ filetypes' = InsertAtFront(filetypes, types)
    /\ registered' = Append(registered, types)
    /\ last' = NoSave
    /\ UNCHANGED <<probe, mf, db, storage, catVars>>

\* The names the model classifies most, and every predicate it registers.
KnownNames == FileNames \cup ProbeNames \cup {<<>>, Sentinel}

KnownTests ==
    { BuiltinFiletypes[i].test : i \in DOMAIN BuiltinFiletypes }
    \cup UNION { { g[i].test : i \in DOMAIN g } : g \in UserGroups }

\* The predicates are pure: their verdicts on the known names are computed once.
Verdicts == [t \in KnownTests |-> {n \in KnownNames : TypeTest(t, n)}]

\* type_test(name)
Accepts(id, name) ==
    IF name \in KnownNames THEN name \in Verdicts[id] ELSE TypeTest(id, name)

RECURSIVE FirstMatchFrom(_, _, _)
\* The for loop of determine_file_type from entry i on, and the fall-through
\* return of the last entry's key.
FirstMatchFrom(ft, i, name) ==
    IF i > Len(ft) THEN ft[Len(ft)].key
    ELSE IF Accepts(ft[i].test, name) THEN ft[i].key
    ELSE FirstMatchFrom(ft, i + 1, name)

determine_file_type(name) == FirstMatchFrom(filetypes, 1, name)

\* t.determine_file_type(name), called directly.
DetermineFileType(name) ==
    /\ probe' = [name |-> name, key |-> determine_file_type(name),
                 calls |-> Len(registered)]
    /\ UNCHANGED <<filetypes, registered, mediaVars, catVars>>

(* ------------------------------------------------------------------ *)
(* The blob store and the MediaFile instance                           *)
(* ------------------------------------------------------------------ *)

\* A blob: whether it exists, whether PIL can decode it, what
\* image._getexif() does on it ("AttributeError", "IOError", "KeyError": it
\* raises; "None": it returns nothing; "dict": it returns tags, o being the
\* value of tag 274 and 0 standing for a dict without that tag), and the
\* rotation its pixels have undergone since upload.
Absent == [present |-> FALSE, dec |-> FALSE, exif |-> "None", o |-> 0, rot |-> 0]

Orientations == {0, 1, 3, 6, 8}

Blob(dec, exif, o) == [present |-> TRUE, dec |-> dec, exif |-> exif, o |-> o, rot |-> 0]

\* What an upload can hold: bytes PIL cannot decode, or an image, with
\* each outcome of _getexif().
Uploads ==
    {Blob(FALSE, "None", 0)}
    \cup {Blob(TRUE, e, 0) : e \in {"AttributeError", "IOError", "KeyError", "None"}}
    \cup {Blob(TRUE, "dict", n) : n \in Orientations}

\* The first name is uploaded with any content, the other names with
\* undecodable bytes or an image without EXIF.
UploadsOf(name) ==
    IF name = AllFileNames[1] THEN Uploads
    ELSE {Blob(FALSE, "None", 0), Blob(TRUE, "None", 0)}

\* self.file.size of a stored blob: the blob named AllFileNames[i] holds i bytes.
BlobSize(name) == CHOOSE i \in DOMAIN AllFileNames : AllFileNames[i] = name

\* The blob a name refers to.
BlobOf(st, name) == IF name \in FileNames THEN st[name] ELSE Absent

\* The name comes to refer to a blob: an upload creates it unless it exists.
PutBlob(st, name, content) ==
    IF name \in FileNames /\ ~st[name].present
    THEN [st EXCEPT ![name] = content]
    ELSE st

\* MediaFileBase.__init__ on field values: the original file name is
\* remembered when the instance has a file.
NewInstance(id, file, type, file_size) ==
    [live |-> TRUE, id |-> id, file |-> file, type |-> type,
     file_size |-> file_size, orig |-> IF file # <<>> THEN file ELSE <<>>]

\* MediaFile(file=name) or MediaFile(): a record not stored yet (id is None,
\* written 0).  The model holds one row, so a new record is built only
\* while there is none.
Construct(name, content) ==
    /\ ~db.exists
    /\ mf' = NewInstance(0, name, "", <<>>)
    /\ storage' = PutBlob(storage, name, content)
    /\ last' = NoSave
    /\ UNCHANGED <<filetypes, registered, probe, db, catVars>>

\* MediaFile.objects.get(...): a fresh instance of the stored row.
Load ==
    /\ db.exists
    /\ mf' = NewInstance(1, db.file, db.type, db.file_size)
    /\ last' = NoSave
    /\ UNCHANGED <<filetypes, registered, probe, db, storage, catVars>>

\* instance.file = name: the replacement of the underlying file.
AssignFile(name, content) ==
    /\ mf.live
    /\ mf' = [mf EXCEPT !.file = name]
    /\ storage' = PutBlob(storage, name, content)
    /\ last' = NoSave
    /\ UNCHANGED <<filetypes, registered, probe, db, catVars>>

(* ------------------------------------------------------------------ *)
(* MediaFileBase.save                                                  *)
(* ------------------------------------------------------------------ *)

\* self.type = self.determine_file_type(self.file.name)
TypeAtSave(m) == determine_file_type(m.file)

\* self.type = self.determine_file_type('***')
FallbackType == determine_file_type(Sentinel)

\* A seeded slip: the rotations of orientations 6 and 8 are exchanged.
Rotation_Swapped(orientation) ==
    IF orientation = 3 THEN 180
    ELSE IF orientation = 6 THEN 90
    ELSE IF orientation = 8 THEN 270
    ELSE 0

\* rotation = 0; if orientation == 3: ... elif 6: ... elif 8: ...
Rotation(orientation) ==
    IF orientation = 3 THEN 180
    ELSE IF orientation = 6 THEN 270
    ELSE IF orientation = 8 THEN 90
    ELSE 0

\* image = image.rotate(rotation); image.save(self.file.path): the blob is
\* rewritten with the rotated pixels; PIL writes no EXIF block on save.
Rotated(blob, rotation) ==
    [blob EXCEPT !.rot = (blob.rot + rotation) % 360, !.exif = "None", !.o = 0]

\* except (OSError, IOError, ValueError): logging.error(...) -- nothing is assigned.
SizeAfterFailure(m) == m.file_size

\* getattr(self, '_original_file_name', None) and
\* self.file.name != self._original_file_name
FileChanged(m) == m.orig # <<>> /\ m.file # m.orig

\* save(): sizeFails, handleFails, pathFails say whether reading the size,
\* Image.open(self.file) and Image.open(self.file.path) hit an I/O error of
\* their own; each also fails when the blob is missing, and both opens fail
\* on a blob PIL cannot decode.  dbFails says whether the row write of
\* super().save() raises.  The write of the rotated image is on a storage
\* that has a path and takes the write.  The timestamp default and the
\* translation cache purge touch nothing modelled here.
Save(sizeFails, handleFails, pathFails, dbFails) ==
    /\ mf.live
    /\ LET name       == mf.file
           hasFile    == name # <<>>
           blob       == BlobOf(storage, name)
           type1      == TypeAtSave(mf)
           sizeRaises == hasFile /\ (sizeFails \/ ~blob.present)
           size1      == IF ~hasFile THEN mf.file_size
                         ELSE IF sizeRaises THEN SizeAfterFailure(mf)
                         ELSE <<BlobSize(name)>>
           isImage    == type1 = "image"
           byHandle   == blob.present /\ blob.dec /\ ~handleFails
           byPath     == blob.present /\ blob.dec /\ ~pathFails
           opened     == isImage /\ (byHandle \/ byPath)
           fallback   == isImage /\ ~opened
           rotation   == IF opened /\ blob.exif = "dict" THEN Rotation(blob.o) ELSE 0
           type2      == IF fallback THEN FallbackType ELSE type1
           storage1   == IF rotation # 0
                         THEN [storage EXCEPT ![name] = Rotated(blob, rotation)]
                         ELSE storage
           doDelete   == FileChanged(mf)
           storage2   == IF doDelete
                         THEN [storage1 EXCEPT ![mf.orig] = Absent]
                         ELSE storage1
       IN  /\ storage' = storage2
           /\ mf' = [mf EXCEPT !.type = type2, !.file_size = size1,
                               !.id = IF dbFails THEN mf.id ELSE 1]
           /\ db' = IF dbFails THEN db
                    ELSE [exists |-> TRUE, file |-> name, type |-> type2,
                          file_size |-> size1]
           /\ last' = [op |-> "save",
                       deleted |-> IF doDelete THEN <<mf.orig>> ELSE <<>>,
                       raised |-> dbFails, opened |-> opened,
                       fallback |-> fallback, rotation |-> rotation,
                       sizeFailed |-> sizeRaises]
    /\ UNCHANGED <<filetypes, registered, probe, catVars>>

(* ------------------------------------------------------------------ *)
(* Initial state and specifications                                    *)
(* ------------------------------------------------------------------ *)

Init ==
    /\ filetypes = InsertAtFront(<<>>, BuiltinFiletypes)
    /\ registered = <<>>
    /\ probe = [name |-> <<>>, key |-> "", calls |-> 0]
    /\ mf = [live |-> FALSE, id |-> 0, file |-> <<>>, type |-> "",
             file_size |-> <<>>, orig |-> <<>>]
    /\ db = [exists |-> FALSE, file |-> <<>>, type |-> "", file_size |-> <<>>]
    /\ storage = [n \in FileNames |-> Absent]
    /\ last = NoSave
    /\ cats = <<>>
    /\ clast = [op |-> "init", id |-> 0, slugIn |-> <<>>]

(* ------------------------------------------------------------------ *)
(* Category                                                            *)
(* ------------------------------------------------------------------ *)

Titles ==
    { <<"T", "e", "s", "t", " ", "C", "a", "t", "e", "g", "o", "r", "y">>,
      <<" ", "O", "l", "d", " ", "-", " ", " ", "T", "i", "t", "l", "e", " ">>,
      <<"!", "!">> }

\* Slugs typed in by an editor; <<>> is the blank slug.
GivenSlugs == { <<>>, <<"c", "u", "s", "t", "o", "m">> }

WordChars ==
    {UpperAlpha[i] : i \in DOMAIN UpperAlpha}
    \cup {LowerAlpha[i] : i \in DOMAIN LowerAlpha}
    \cup Digits \cup {"_"}

\* re.sub('[^\w\s-]', '', value)
RemoveNonSlugChars(s) ==
    LET keep(c) == c \in WordChars \cup {" ", "-"}
    IN  SelectSeq(s, keep)

RECURSIVE Strip(_)
\* str.strip()
Strip(s) ==
    IF s = <<>> THEN s
    ELSE IF s[1] = " " THEN Strip(Tail(s))
    ELSE IF s[Len(s)] = " " THEN Strip(SubSeq(s, 1, Len(s) - 1))
    ELSE s

RECURSIVE CollapseFrom(_, _, _)
\* re.sub('[-\s]+', '-', value): every run of hyphens and spaces becomes one hyphen.
CollapseFrom(s, i, inRun) ==
    IF i > Len(s) THEN <<>>
    ELSE IF s[i] \in {" ", "-"}
         THEN (IF inRun THEN <<>> ELSE <<"-">>) \o CollapseFrom(s, i + 1, TRUE)
         ELSE <<s[i]>> \o CollapseFrom(s, i + 1, FALSE)

\* django.template.defaultfilters.slugify on ASCII text.
slugify(value) == CollapseFrom(LowerStr(Strip(RemoveNonSlugChars(value))), 1, FALSE)

\* slugify over the titles in use, computed once.
Slugs == [t \in Titles |-> slugify(t)]

\* A seeded slip: the slug follows the title at every save.
SlugAtSave_Recomputes(row) == Slugs[row.title]

\* if not self.slug: self.slug = slugify(self.title)
SlugAtSave(row) == IF row.slug = <<>> THEN Slugs[row.title] ELSE row.slug

\* Category.save on the instance's field values; the row is written as is.
SavedRow(row) == [row EXCEPT !.slug = SlugAtSave(row)]

CatIds == DOMAIN cats

\* limit_choices_to={'parent__isnull': True}: the parents a form offers, and
\* no parent at all (parent_id NULL is written 0).
ParentChoices == {0} \cup {p \in CatIds : cats[p].parent = 0}

\* Category(title=..., slug=..., parent=...).save()
CategoryCreate(title, slug, parent) ==
    /\ Len(cats) < MaxCategories
    /\ parent \in ParentChoices
    /\ cats' = Append(cats, SavedRow([title |-> title, slug |-> slug, parent |-> parent]))
    /\ clast' = [op |-> "create", id |-> Len(cats) + 1, slugIn |-> slug]
    /\ UNCHANGED <<filetypes, registered, probe, mediaVars>>

\* c.title = title; c.save()
CategoryEditTitle(c, title) ==
    /\ c \in CatIds
    /\ cats' = [cats EXCEPT ![c] = SavedRow([cats[c] EXCEPT !.title = title])]
    /\ clast' = [op |-> "title", id |-> c, slugIn |-> cats[c].slug]
    /\ UNCHANGED <<filetypes, registered, probe, mediaVars>>

\* c.slug = slug; c.save()
CategoryEditSlug(c, slug) ==
    /\ c \in CatIds
    /\ cats' = [cats EXCEPT ![c] = SavedRow([cats[c] EXCEPT !.slug = slug])]
    /\ clast' = [op |-> "slug", id |-> c, slugIn |-> slug]
    /\ UNCHANGED <<filetypes, registered, probe, mediaVars>>

\* c.parent = parent; c.save(): the parent is one the form offers, which
\* includes c itself while c has no parent.
CategoryEditParent(c, parent) ==
    /\ c \in CatIds
    /\ parent \in ParentChoices
    /\ cats' = [cats EXCEPT ![c] = SavedRow([cats[c] EXCEPT !.parent = parent])]
    /\ clast' = [op |-> "parent", id |-> c, slugIn |-> cats[c].slug]
    /\ UNCHANGED <<filetypes, registered, probe, mediaVars>>

RECURSIVE PathListFrom(_, _)
\* path_list(): the recursion over parent.  A chain of parents that visits
\* more rows than exist is a cycle, on which the recursion never returns
\* (returned |-> FALSE).
PathListFrom(c, depth) ==
    IF cats[c].parent = 0 THEN [returned |-> TRUE, list |-> <<c>>]
    ELSE IF depth > Len(cats) THEN [returned |-> FALSE, list |-> <<>>]
    ELSE LET p == PathListFrom(cats[c].parent, depth + 1)
         IN  [returned |-> p.returned,
              list |-> IF p.returned THEN Append(p.list, c) ELSE <<>>]

path_list(c) == PathListFrom(c, 1)

RECURSIVE Join(_, _)
\* sep.join(parts)
Join(parts, sep) ==
    IF parts = <<>> THEN <<>>
    ELSE IF Len(parts) = 1 THEN parts[1]
    ELSE parts[1] \o sep \o Join(Tail(parts), sep)

\* ' - '.join((f.title for f in self.path_list()))
path(c) ==
    LET l == path_list(c).list
    IN  Join([i \in 1..Len(l) |-> cats[l[i]].title], <<" ", "-", " ">>)

(* ------------------------------------------------------------------ *)
(* Specifications                                                      *)
(* ------------------------------------------------------------------ *)

NextClassify ==
    \/ \E g \in UserGroups : RegisterFiletypes(g)
    \/ \E n \in ProbeNames : DetermineFileType(n)

NextMedia ==
    \/ \E g \in UserGroups :
          Len(registered) < MaxMediaRegistrations /\ RegisterFiletypes(g)
    \/ \E n \in FileNames \cup {<<>>} : \E c \in UploadsOf(n) : Construct(n, c)
    \/ Load
    \/ \E n \in FileNames : \E c \in UploadsOf(n) : AssignFile(n, c)
    \/ \E s, h, p, d \in BOOLEAN : Save(s, h, p, d)

NextCategory ==
    \/ \E t \in Titles, s \in GivenSlugs, p \in 0..MaxCategories : CategoryCreate(t, s, p)
    \/ \E c \in 1..MaxCategories, t \in Titles : CategoryEditTitle(c, t)
    \/ \E c \in 1..MaxCategories, s \in GivenSlugs : CategoryEditSlug(c, s)
    \/ \E c \in 1..MaxCategories, p \in 0..MaxCategories : CategoryEditParent(c, p)

Next == NextClassify \/ NextMedia \/ NextCategory

Spec == Init /\ [][Next]_vars

SpecClassify == Init /\ [][NextClassify]_vars

SpecMedia == Init /\ [][NextMedia]_vars

SpecCategory == Init /\ [][NextCategory]_vars

(* ------------------------------------------------------------------ *)
(* Properties: the file-type classifier (SpecClassify)                 *)
(* ------------------------------------------------------------------ *)

RECURSIVE RegistryAfter(_)
\* The registry the first i caller registrations should leave: each
\* group, in the order given, ahead of everything registered before it.
RegistryAfter(i) ==
    IF i = 0 THEN BuiltinFiletypes
    ELSE registered[i] \o RegistryAfter(i - 1)

\* The positions of the registry whose predicate accepts the name.
MatchingEntries(name) == {i \in DOMAIN filetypes : TypeTest(filetypes[i].test, name)}

\* The key of the registry's last entry.
CatchAllKey == filetypes[Len(filetypes)].key

Doctest ==
    { <<<<"f", "o", "o", "b", "a", "r", ".", "j", "p", "g">>, "image">>,
      <<<<"f", "o", "o", "b", "a", "r", ".", "P", "D", "F">>, "pdf">>,
      <<<<"f", "o", "o", "b", "a", "r", ".", "j", "p", "g", ".", "p", "d", "f">>, "pdf">>,
      <<<<"f", "o", "o", "b", "a", "r", ".", "j", "g", "p">>, "other">>,
      <<<<"f", "o", "o", "b", "a", "r", "-", "j", "p", "g">>, "other">> }

\* C4: after any sequence of register_filetypes calls the registry is the
\* callers' groups, latest call first and each in the order given, followed
\* by the built-in set, whose catch-all 'other' stays last;
\* determine_file_type returns the key of the matching entry closest to the
\* front, and 'other' when only the catch-all matches; matching ignores
\* case; on the built-in registry the doctest's names get the doctest's keys.
C4_ClassifierFirstMatch ==
    /\ filetypes = RegistryAfter(Len(registered))
    /\ CatchAllKey = "other"
    /\ Predicate(filetypes[Len(filetypes)].test).kind = "true"
    /\ probe.key # "" /\ probe.calls = Len(registered) =>
          LET m == MatchingEntries(probe.name)
              first == CHOOSE i \in m : \A j \in m : i <= j
          IN  /\ m # {}
              /\ probe.key = filetypes[first].key
              /\ (m = {Len(filetypes)} => probe.key = "other")
              /\ probe.key = determine_file_type(LowerStr(probe.name))
              /\ (registered = <<>> =>
                    \A d \in Doctest : d[1] = probe.name => d[2] = probe.key)

\* Two caller groups are registered and a .jpg name, which the built-in
\* image rule matches too, was given the caller's key.
C4_Witness ==
    /\ Len(registered) = 2 /\ probe.calls = 2
    /\ probe.name = <<"f", "o", "o", "b", "a", "r", ".", "j", "p", "g">>
    /\ probe.key = "photo"
    /\ Cardinality(MatchingEntries(probe.name)) >= 3

(* ------------------------------------------------------------------ *)
(* Properties: MediaFileBase.save (SpecMedia)                          *)
(* ------------------------------------------------------------------ *)

\* C1: a save of a stored record whose file is the stored one calls no
\* storage delete (the superseded file was deleted once, by the save that
\* stored its replacement), and a save of a stored record whose file was
\* replaced deletes exactly the file stored just before.
C1_SupersededDeletedOnce ==
    [][last'.op = "save" /\ mf.id # 0 =>
         /\ (mf.file = db.file => last'.deleted = <<>>)
         /\ (mf.file # db.file /\ db.file # <<>> => last'.deleted = <<db.file>>)]_vars

\* C3: after a save that returned, type is
\* determine_file_type(file.name), or the key of the last registry entry
\* when the image-open fallback fired.
C3_TypeRederivedOrCatchAll ==
    last.op = "save" /\ ~last.raised =>
        \/ mf.type = determine_file_type(mf.file)
        \/ last.fallback /\ mf.type = CatchAllKey

\* C5: a save that typed the file 'image' by name and could open
\* it neither by handle nor by path leaves the record with the key of the
\* last registry entry, not 'image', and writes the row.
C5_FallbackToCatchAll ==
    last.op = "save" /\ determine_file_type(mf.file) = "image" /\ ~last.opened =>
        /\ mf.type = CatchAllKey
        /\ mf.type # "image"
        /\ (~last.raised => db.exists /\ db.file = mf.file /\ db.type = CatchAllKey)

\* C6: a save whose size read failed leaves file_size null, on the instance
\* and in the row it writes.
C6_SizeNullAfterFailedRead ==
    last.op = "save" /\ last.sizeFailed =>
        /\ mf.file_size = <<>>
        /\ (~last.raised => db.exists /\ db.file_size = <<>>)

C10_NoDeleteOnFailedSave ==
    last.op = "save" /\ last.raised /\ db.exists /\ db.file # <<>> =>
        BlobOf(storage, db.file).present

(* ------------------------------------------------------------------ *)
(* Properties: Category (SpecCategory)                                 *)
(* ------------------------------------------------------------------ *)

\* C2: every category that has a parent has a parent without a parent, and
\* is not its own parent.
C2_DepthAtMostTwo ==
    \A c \in CatIds :
        cats[c].parent # 0 =>
            /\ cats[c].parent # c
            /\ cats[cats[c].parent].parent = 0

\* C7: a save entered with a blank slug leaves slugify(title), which for
\* 'Test Category' is 'test-category'; a save entered with a non-blank slug
\* leaves that slug; and no step other than an edit of the slug field
\* changes a non-blank slug.
C7_SlugComputedOnce ==
    [][/\ clast'.op # "init" =>
            LET row == cats'[clast'.id]
            IN  /\ clast'.slugIn = <<>> => row.slug = slugify(row.title)
                /\ clast'.slugIn # <<>> => row.slug = clast'.slugIn
                /\ (clast'.slugIn = <<>> /\ row.title = <<"T", "e", "s", "t", " ", "C", "a", "t", "e", "g", "o", "r", "y">>)
                      => row.slug = <<"t", "e", "s", "t", "-", "c", "a", "t", "e", "g", "o", "r", "y">>
       /\ \A c \in CatIds :
            cats[c].slug # <<>> /\ clast'.op # "slug" => cats'[c].slug = cats[c].slug]_vars

\* A category first saved as 'Test Category' with a blank slug has had its
\* title edited and saved, and still has the slug 'test-category'.
C7_Witness ==
    /\ clast.op = "title"
    /\ cats[clast.id].title = <<" ", "O", "l", "d", " ", "-", " ", " ", "T", "i", "t", "l", "e", " ">>
    /\ cats[clast.id].slug = <<"t", "e", "s", "t", "-", "c", "a", "t", "e", "g", "o", "r", "y">>

\* C8: path_list() returns, for every category, the chain from the root
\* ancestor to the category, of at most 2 elements, and path() is the
\* chain's titles joined with ' - '.
C8_PathIsRootToSelf ==
    \A c \in CatIds :
        LET r == path_list(c)
        IN  /\ r.returned
            /\ Len(r.list) <= 2
            /\ r.list[Len(r.list)] = c
            /\ cats[r.list[1]].parent = 0
            /\ \A i \in 2..Len(r.list) : cats[r.list[i]].parent = r.list[i - 1]
            /\ (cats[c].parent = 0 => path(c) = cats[c].title)
            /\ (cats[c].parent # 0 =>
                  path(c) = cats[cats[c].parent].title \o <<" ", "-", " ">> \o cats[c].title)

====
